---- MODULE Spec2Model ----
(***************************************************************************)
(* mdu: multi-threaded disk usage.  A pool of workers (the invoking thread *)
(* plus thread_num spawned threads) pulls directory paths from per-root    *)
(* queues, sums st_blocks and detects global termination under the         *)
(* dispatch lock mutex_work.                                               *)
(***************************************************************************)
EXTENDS Integers, Sequences, FiniteSets, TLC

(* ------------------------------ bounds -------------------------------- *)

\* largest value given to -j in the modelled command lines
MaxJ == 3

\* TLC computes in 32-bit integers, so a C int is modelled with IntBits bits
\* and st_blocks (blkcnt_t, wider than int) with values beyond that range
IntBits == 16

\* largest number of queue_enqueue calls on the queue exercised on its own
MaxQ == 5

\* largest number of path arguments in the runs of the seeding alone
MaxArgs == 7

\* spawned threads are 1..MaxThreads, the invoking thread is 0
MaxThreads == MaxJ - 1

Threads == 0 .. MaxThreads

(* ---------------------------- filesystem ------------------------------ *)
\* A fixed directory forest, named by path as the program builds the paths.
\*   A/ a1 B/ C/        A/B/ b1 E/        A/C/ c1 c2        A/B/E/ (empty)
\*   R/ r1 S/           R/S/ s1 L -> R (symbolic link)
\*   F  a plain file
DirPaths == {"A", "A/B", "A/C", "A/B/E", "R", "R/S"}

\* d_name of the two entries every directory stream also returns
Dot == "."
DotDot == ".."

\* the names in a directory, in the order readdir returns them
Children(d) ==
    CASE d = "A" -> <<"a1", "B", "C">>
      [] d = "A/B" -> <<"b1", "E">>
      [] d = "A/C" -> <<"c1", "c2">>
      [] d = "R" -> <<"r1", "S">>
      [] d = "R/S" -> <<"s1", "L">>
      [] OTHER -> <<>>

\* the entries readdir returns for an opened directory, in stream order
DirStream(d) == <<Dot, DotDot>> \o Children(d)

\* st_mode file type reported by lstat (a symbolic link is not followed)
S_IFDIR == "dir"
S_IFREG == "reg"
S_IFLNK == "lnk"

LstatMode(p) == IF p \in DirPaths THEN S_IFDIR
                ELSE IF p = "R/S/L" THEN S_IFLNK ELSE S_IFREG

\* st_blocks reported by lstat (blkcnt_t, wider than int).  In the ordinary
\* profile every path has its own power of two, so a sum names the paths in
\* it.  In the large profile the files of A/C hold a quarter of the range of
\* an int each (512 GiB for a 32-bit int) and F holds half of it (1 TiB).
LstatBlocks(p, lg) ==
    IF lg /\ p \in {"A/C/c1", "A/C/c2"} THEN 2^(IntBits - 2)
    ELSE IF lg /\ p = "F" THEN 2^(IntBits - 1)
    ELSE CASE p = "A" -> 1         [] p = "A/a1" -> 2
           [] p = "A/B" -> 4       [] p = "A/C" -> 8
           [] p = "A/B/b1" -> 16   [] p = "A/B/E" -> 32
           [] p = "A/C/c1" -> 64   [] p = "A/C/c2" -> 128
           [] p = "R" -> 256       [] p = "R/r1" -> 512
           [] p = "R/S" -> 1024    [] p = "R/S/s1" -> 2048
           [] p = "R/S/L" -> 4096  [] p = "F" -> 8192

\* snprintf(full_path, path_length, "%s/%s", dir_name, file_name)
create_full_path(dir_name, file_name) == dir_name \o "/" \o file_name

(* ------------------------------ C types ------------------------------- *)

\* conversion of a wider integer to a signed int
ToInt(x) == ((x + 2^(IntBits - 1)) % 2^IntBits) - 2^(IntBits - 1)

\* int + int on the build's two's-complement hardware
IntAdd(a, b) == ToInt(a + b)

EXIT_SUCCESS == 0
EXIT_FAILURE == 1

(* ------------------------------- argv --------------------------------- *)
\* argv[1 .. argc-1] as a sequence of tokens; argv[0] is the program name,
\* so the C index of a token is its position in the sequence.
PathTok(p) == [k |-> "path", s |-> p]
\* "-j" followed by a separate value token
JTok == [k |-> "j", s |-> "-j"]
ValTok(str) == [k |-> "val", s |-> str]
\* "-jN" in one token
JAttTok(str) == [k |-> "jatt", s |-> str]

Digits == <<"0", "1", "2", "3", "4", "5", "6", "7", "8", "9">>

DigitVal(c) == (CHOOSE i \in 1 .. 10 : Digits[i] = c) - 1

\* decimal string of a one-digit number
Str(n) == <<Digits[n + 1]>>

RECURSIVE AtoiAcc(_, _)
AtoiAcc(str, acc) ==
    IF str = <<>> \/ Head(str) \notin {Digits[i] : i \in 1 .. 10} THEN acc
    ELSE AtoiAcc(Tail(str), acc * 10 + DigitVal(Head(str)))

atoi(str) == ToInt(AtoiAcc(str, 0))

\* position of the first option element of argv, 0 if there is none
FirstOpt(av) ==
    IF \E p \in 1 .. Len(av) : av[p].k \in {"j", "jatt"}
    THEN CHOOSE p \in 1 .. Len(av) :
            /\ av[p].k \in {"j", "jatt"}
            /\ \A q \in 1 .. (p - 1) : av[q].k \notin {"j", "jatt"}
    ELSE 0

\* optind left by the getopt loop of get_thread_amount: the loop returns at
\* the first 'j'; getopt skips the non-options before it, and when there is
\* no option it resets optind to the first non-option.
Optind(av) ==
    LET p == FirstOpt(av) IN
    IF p = 0 THEN 1
    ELSE IF av[p].k = "j" THEN p + 2 ELSE p + 1

\* optarg at the first 'j'
Optarg(av) ==
    LET p == FirstOpt(av) IN
    IF av[p].k = "j" THEN av[p + 1].s ELSE av[p].s

get_thread_amount(av) ==
    IF FirstOpt(av) = 0 THEN 0
    ELSE IF Optarg(av) = <<>> THEN 0
    ELSE atoi(Optarg(av)) - 1

is_flag_arg(i, oi) == i = (oi - 2) \/ i = oi - 1

is_dictionary(mode) == mode = S_IFDIR

is_dot_or_dot_dot(name) == name = Dot \/ name = DotDot

(* ------------------------------ queue --------------------------------- *)
\* A queue is the linked list of queue.c: nodes are numbered in allocation
\* order, vals[n] and next[n] are the fields of node n (0 is NULL), freed
\* holds the nodes node_destroy has released.
queue_create == [vals |-> <<>>, next |-> <<>>, first |-> 0, last |-> 0,
                 freed |-> {}]

queue_is_empty(q) == q.first = 0

\* mutant: the test for an empty queue looks at last, which queue_dequeue
\* never resets
queue_enqueue_tests_last(q, value) ==
    LET node == Len(q.vals) + 1 IN
    IF ~(q.last = 0)
    THEN [vals |-> Append(q.vals, value),
          next |-> Append([q.next EXCEPT ![q.last] = node], 0),
          first |-> q.first, last |-> node, freed |-> q.freed]
    ELSE [vals |-> Append(q.vals, value),
          next |-> Append(q.next, 0),
          first |-> node, last |-> node, freed |-> q.freed]

queue_enqueue(q, value) ==
    LET node == Len(q.vals) + 1 IN
    IF ~(q.first = 0)
    THEN [vals |-> Append(q.vals, value),
          next |-> Append([q.next EXCEPT ![q.last] = node], 0),
          first |-> q.first, last |-> node, freed |-> q.freed]
    ELSE [vals |-> Append(q.vals, value),
          next |-> Append(q.next, 0),
          first |-> node, last |-> node, freed |-> q.freed]

\* the value queue_dequeue returns
queue_front(q) == q.vals[q.first]

\* mutant: the front node is released but stays the front
queue_dequeue_keeps_front(q) == [q EXCEPT !.freed = @ \cup {q.first}]

\* the queue queue_dequeue leaves
queue_dequeue(q) ==
    [q EXCEPT !.first = q.next[q.first], !.freed = @ \cup {q.first}]

\* the nodes linked from node n on, in order
RECURSIVE Chain(_, _)
Chain(q, n) == IF n = 0 THEN <<>> ELSE <<n>> \o Chain(q, q.next[n])

\* the pending nodes of a queue, front first
Pending(q) == Chain(q, q.first)

(* ---------------------------- coordinator ----------------------------- *)
create_coordinator ==
    [active_threads |-> 0, tot_sum |-> 0, dir_queue |-> queue_create]

\* mutant: the increment is lost
increment_counter_lost(c) == c

increment_counter(c) == c + 1

\* mutant: the decrement is left out
decrement_counter_skipped(c) == c

decrement_counter(c) == IF c > 0 THEN c - 1 ELSE c

\* update_total_sum(int value, coordinator): the argument is converted to int
update_total_sum(value, co) ==
    [co EXCEPT !.tot_sum = IntAdd(co.tot_sum, ToInt(value))]

(* ------------------------------- state -------------------------------- *)
VARIABLES
    argv,         \* the command line after the program name
    openFail,     \* the directories whose opendir fails
    large,        \* TRUE in the large st_blocks profile
    vanish,       \* the paths another process may unlink during the run
    oom,          \* TRUE when an allocation may fail
    missing,      \* the paths that have been unlinked: lstat fails on them
    optind,       \* getopt's optind after get_thread_amount
    thread_num,   \* main's thread_num
    coordinator,  \* thread_context->coordinator[0 .. dir_num-1], as a sequence
    dir_num,      \* thread_context->dir_num
    size,         \* thread_context->size
    alloc,        \* the slots the coordinator array really has
    mutex_work,   \* the holder of the dispatch lock ({} when free)
    mutex_error,  \* the holder of the diagnostic lock ({} when free)
    pc,           \* each thread's position
    idx,          \* the loop index i of are_threads_active,
                  \* get_non_empty_coordinator and thread_context_destroy
    cur,          \* thread_handler's coordinator (its C index)
    dir_path,     \* thread_handler's dir_path
    sum,          \* traverse_directory's local sum
    ent,          \* position of the thread's directory stream
    errno,        \* the thread's errno
    retval,       \* *exit_status returned by thread_handler
    mi,           \* main's loop index i (seeding, creating, joining, printing)
    exit_status,  \* main's exit_status
    pdir,         \* print_results' dir_num
    out,          \* the lines written to stdout, as <<file_size, argv index>>
    err,          \* stderr: the directories reported, the fatal messages
    exitcode,     \* the process exit status, once it has exited
    destroyed,    \* TRUE once thread_context_destroy has run
    handed,       \* history: the <<root, node>> each get_coordinator_with_work returned
    traversed,    \* history: the <<root, node>> whose traverse_directory has returned
    sawFail,      \* history: the threads that saw an opendir fail
    unit          \* history: the queue node each thread is working on (0: none)

envVars == <<argv, openFail, large, vanish, oom, missing, optind, thread_num>>
ctxVars == <<coordinator, dir_num, size, alloc>>
lockVars == <<mutex_work, mutex_error>>
thrVars == <<pc, idx, cur, dir_path, sum, ent, errno, retval>>
mainVars == <<mi, exit_status, pdir, out, exitcode, destroyed>>
histVars == <<err, handed, traversed, sawFail, unit>>
vars == <<envVars, ctxVars, lockVars, thrVars, mainVars, histVars>>

argc == Len(argv) + 1

\* thread_context->coordinator[i]
Co(i) == coordinator[i + 1]

(* --------------------------- command lines ---------------------------- *)
\* "-j N" / "-jN" before the paths, after the first path, or no option
NoFlag(paths) == paths
SepFront(j, paths) == <<JTok, ValTok(Str(j))>> \o paths
AttFront(j, paths) == <<JAttTok(Str(j))>> \o paths
SepAfter(j, paths) == <<Head(paths), JTok, ValTok(Str(j))>> \o Tail(paths)
AttAfter(j, paths) == <<Head(paths), JAttTok(Str(j))>> \o Tail(paths)

A == PathTok("A")
R == PathTok("R")
F == PathTok("F")

\* a run in which no lstat and no allocation fails
Config(av, fails, lg) ==
    [argv |-> av, openFail |-> fails, large |-> lg, vanish |-> {},
     oom |-> FALSE]

\* a run in which the paths of van may disappear and, with o, an allocation
\* may fail
FatalConfig(av, fails, van, o) ==
    [argv |-> av, openFail |-> fails, large |-> FALSE, vanish |-> van,
     oom |-> o]

\* no option: the invoking thread is the only worker
SoloConfigs ==
    {Config(NoFlag(p), f, lg) :
        p \in {<<F>>, <<A>>, <<R, F, A>>},
        f \in {{}, {"A/B"}, {"A", "R/S"}},
        lg \in BOOLEAN}

\* the tree R under every option value and option position
RConfigs ==
    {Config(av, f, FALSE) :
        av \in UNION {{SepFront(j, <<R>>), AttFront(j, <<R, F>>),
                       SepAfter(j, <<F, R>>), AttAfter(j, <<F, R>>),
                       AttAfter(j, <<R, F>>)} : j \in 1 .. MaxJ},
        f \in {{}, {"R/S"}, {"R"}}}

\* the tree A with one and two spawned threads
AConfigs ==
    {Config(SepFront(2, <<A>>), f, lg) :
        f \in {{}, {"A/B"}, {"A/C"}}, lg \in BOOLEAN}
    \cup {Config(AttFront(3, <<A>>), {}, FALSE)}

\* two and three arguments shared by two workers
PairConfigs ==
    {Config(SepFront(2, <<A, R>>), {}, FALSE),
     Config(AttFront(2, <<R, F, A>>), {"A/C", "R/S"}, FALSE),
     Config(SepAfter(2, <<F, A, R>>), {"A/B"}, TRUE),
     Config(SepFront(2, <<R, R>>), {}, FALSE)}

\* the option with value 0 ("-j 0", "-j0") and with an empty value ("-j" "")
ZeroConfigs ==
    {Config(SepFront(0, <<R>>), {}, FALSE),
     Config(AttFront(0, <<R, F>>), {"R/S"}, FALSE),
     Config(<<JTok, ValTok(<<>>), R>>, {}, FALSE)}

Configs == SoloConfigs \cup RConfigs \cup AConfigs \cup PairConfigs
           \cup ZeroConfigs

(* ------------------------------- Init --------------------------------- *)
\* The state after check_arguments, get_thread_amount and
\* create_thread_context: no coordinator, two slots, main about to seed.
InitFrom(configs) ==
    /\ \E c \in configs :
          /\ argv = c.argv
          /\ openFail = c.openFail
          /\ large = c.large
          /\ vanish = c.vanish
          /\ oom = c.oom
    /\ missing = {}
    /\ optind = Optind(argv)
    /\ thread_num = get_thread_amount(argv)
    /\ coordinator = <<>>
    /\ dir_num = 0
    /\ size = 2
    /\ alloc = 2
    /\ mutex_work = {}
    /\ mutex_error = {}
    /\ pc = [t \in Threads |-> IF t = 0 THEN "seed" ELSE "unborn"]
    /\ idx = [t \in Threads |-> 0]
    /\ cur = [t \in Threads |-> 0]
    /\ dir_path = [t \in Threads |-> ""]
    /\ sum = [t \in Threads |-> 0]
    /\ ent = [t \in Threads |-> 0]
    /\ errno = [t \in Threads |-> 0]
    /\ retval = [t \in Threads |-> 0]
    /\ mi = 1
    /\ exit_status = 0
    /\ pdir = 0
    /\ out = <<>>
    /\ err = <<>>
    /\ exitcode = 0
    /\ destroyed = FALSE
    /\ handed = <<>>
    /\ traversed = {}
    /\ sawFail = {}
    /\ unit = [t \in Threads |-> 0]

Init == InitFrom(Configs)

(* ------------------------------ seeding ------------------------------- *)
\* expand_and_create_coordinator, run with dir_num already incremented:
\* the new <<size, slots of the array>>
expand(sz, al, dn) ==
    IF sz <= dn THEN <<sz * 2, sz + 2>> ELSE <<sz, al>>

\* the lines the fatal paths write to stderr: perror("lstat") and the
\* "... failed to allocate memory" of the allocation wrappers
LstatMessage == "lstat"
AllocMessage == "failed to allocate memory"

\* TRUE when lstat(path_name, buff) returns -1
lstat_fails(path_name, gone) == path_name \in gone

\* process_argument(mi, argv[mi]) and the loop step of
\* traverse_input_arguments; a failed lstat takes safe_lstat's fatal path
ProcessArgument ==
    /\ pc[0] = "seed"
    /\ mi < argc
    /\ IF ~is_flag_arg(mi, optind) /\ lstat_fails(argv[mi].s, missing)
       THEN /\ pc' = [pc EXCEPT ![0] = "fatal"]
            /\ err' = Append(err, LstatMessage)
            /\ UNCHANGED <<ctxVars, mi>>
       ELSE /\ IF ~is_flag_arg(mi, optind)
                  /\ is_dictionary(LstatMode(argv[mi].s))
               THEN /\ dir_num' = dir_num + 1
                    /\ size' = expand(size, alloc, dir_num')[1]
                    /\ alloc' = expand(size, alloc, dir_num')[2]
                    /\ coordinator' =
                          Append(coordinator,
                                 update_total_sum(
                                     LstatBlocks(argv[mi].s, large),
                                     [create_coordinator EXCEPT
                                         !.dir_queue =
                                             queue_enqueue(@, argv[mi].s)]))
               ELSE UNCHANGED ctxVars
            /\ mi' = mi + 1
            /\ pc' = pc
            /\ err' = err
    /\ UNCHANGED <<envVars, lockVars, idx, cur, dir_path, sum, ent, errno,
                   retval, exit_status, pdir, out, exitcode, destroyed,
                   handed, traversed, sawFail, unit>>

\* the end of traverse_input_arguments
SeedDone ==
    /\ pc[0] = "seed"
    /\ mi >= argc
    /\ pc' = [pc EXCEPT ![0] = "create"]
    /\ mi' = 0
    /\ UNCHANGED <<envVars, ctxVars, lockVars, idx, cur, dir_path, sum, ent,
                   errno, retval, exit_status, pdir, out, exitcode, destroyed,
                   histVars>>

\* one pthread_create of main's loop, or, after the loop, main's own call
\* of thread_handler.  With thread_num = -1 the array pthread_t
\* threads[thread_num] has a negative length; it is never indexed, since
\* no loop over it runs, and the build reserves no stack for it.
CreateThread ==
    /\ pc[0] = "create"
    /\ IF mi < thread_num
       THEN /\ pc' = [pc EXCEPT ![mi + 1] = "gcw_lock"]
            /\ mi' = mi + 1
       ELSE /\ pc' = [pc EXCEPT ![0] = "gcw_lock"]
            /\ mi' = mi
    /\ UNCHANGED <<envVars, ctxVars, lockVars, idx, cur, dir_path, sum, ent,
                   errno, retval, exit_status, pdir, out, exitcode, destroyed,
                   histVars>>

(* ------------------------- get_coordinator_with_work ------------------ *)
\* pthread_mutex_lock(&mutex_work) on entry, or the re-acquisition that ends
\* pthread_cond_wait; both continue at the while condition
LockWork(t) ==
    /\ pc[t] \in {"gcw_lock", "woken"}
    /\ mutex_work = {}
    /\ mutex_work' = {t}
    /\ pc' = [pc EXCEPT ![t] = "ata"]
    /\ idx' = [idx EXCEPT ![t] = 0]
    /\ UNCHANGED <<envVars, ctxVars, mutex_error, cur, dir_path, sum, ent,
                   errno, retval, mainVars, histVars>>

\* mutant: the queue is not looked at
is_active_counter_only(co) == co.active_threads > 0

\* the test of one iteration of are_threads_active
is_active(co) == co.active_threads > 0 \/ ~queue_is_empty(co.dir_queue)

\* mutant: are_threads_active looks at the first coordinator only
AreThreadsActive_first_root(t) ==
    /\ pc[t] = "ata"
    /\ IF 0 < dir_num /\ is_active(Co(0))
       THEN /\ pc' = [pc EXCEPT ![t] = "gnc"]
            /\ idx' = [idx EXCEPT ![t] = 0]
       ELSE /\ pc' = [pc EXCEPT ![t] = "ret_null"]
            /\ idx' = idx
    /\ UNCHANGED <<envVars, ctxVars, lockVars, cur, dir_path, sum, ent, errno,
                   retval, mainVars, histVars>>

\* one iteration of are_threads_active, or its return false
AreThreadsActive(t) ==
    /\ pc[t] = "ata"
    /\ IF idx[t] < dir_num
       THEN IF is_active(Co(idx[t]))
            THEN /\ pc' = [pc EXCEPT ![t] = "gnc"]
                 /\ idx' = [idx EXCEPT ![t] = 0]
            ELSE /\ pc' = pc
                 /\ idx' = [idx EXCEPT ![t] = @ + 1]
       ELSE /\ pc' = [pc EXCEPT ![t] = "ret_null"]
            /\ idx' = idx
    /\ UNCHANGED <<envVars, ctxVars, lockVars, cur, dir_path, sum, ent, errno,
                   retval, mainVars, histVars>>

\* mutant: a non-empty queue is passed over when the next root has work
GetNonEmpty_next_root(t) ==
    /\ pc[t] = "gnc"
    /\ idx[t] < dir_num
    /\ IF /\ ~queue_is_empty(Co(idx[t]).dir_queue)
          /\ ~(/\ idx[t] + 1 < dir_num
               /\ ~queue_is_empty(Co(idx[t] + 1).dir_queue))
       THEN /\ pc' = [pc EXCEPT ![t] = "deq"]
            /\ idx' = idx
       ELSE /\ pc' = pc
            /\ idx' = [idx EXCEPT ![t] = @ + 1]
    /\ UNCHANGED <<envVars, ctxVars, lockVars, cur, dir_path, sum, ent, errno,
                   retval, mainVars, histVars>>

\* one iteration of get_non_empty_coordinator up to its queue_is_empty
GetNonEmpty(t) ==
    /\ pc[t] = "gnc"
    /\ idx[t] < dir_num
    /\ IF ~queue_is_empty(Co(idx[t]).dir_queue)
       THEN /\ pc' = [pc EXCEPT ![t] = "deq"]
            /\ idx' = idx
       ELSE /\ pc' = pc
            /\ idx' = [idx EXCEPT ![t] = @ + 1]
    /\ UNCHANGED <<envVars, ctxVars, lockVars, cur, dir_path, sum, ent, errno,
                   retval, mainVars, histVars>>

\* *dir_path = queue_dequeue(coordinator->dir_queue); a dequeue of an empty
\* queue dereferences NULL and ends the process with SIGSEGV
Dequeue(t) ==
    /\ pc[t] = "deq"
    /\ LET q == Co(idx[t]).dir_queue IN
       IF queue_is_empty(q)
       THEN /\ pc' = [u \in Threads |-> "segv"]
            /\ UNCHANGED <<coordinator, dir_path, handed, unit>>
       ELSE /\ dir_path' = [dir_path EXCEPT ![t] = queue_front(q)]
            /\ unit' = [unit EXCEPT ![t] = q.first]
            /\ coordinator' =
                  [coordinator EXCEPT ![idx[t] + 1].dir_queue = queue_dequeue(q)]
            /\ handed' = Append(handed, <<idx[t], q.first>>)
            /\ pc' = [pc EXCEPT ![t] = "inc"]
    /\ UNCHANGED <<envVars, dir_num, size, alloc, lockVars, idx, cur, sum, ent,
                   errno, retval, mainVars, err, traversed, sawFail>>

\* increment_counter(coordinator->active_threads), return coordinator;
\* get_coordinator_with_work unlocks and returns it
Increment(t) ==
    /\ pc[t] = "inc"
    /\ coordinator' = [coordinator EXCEPT ![idx[t] + 1].active_threads =
                          increment_counter(@)]
    /\ cur' = [cur EXCEPT ![t] = idx[t]]
    /\ mutex_work' = mutex_work \ {t}
    /\ pc' = [pc EXCEPT ![t] = "so_lock"]
    /\ UNCHANGED <<envVars, dir_num, size, alloc, mutex_error, idx, dir_path,
                   sum, ent, errno, retval, mainVars, histVars>>

\* get_non_empty_coordinator returned NULL: pthread_cond_wait releases the
\* dispatch lock and blocks
CondWait(t) ==
    /\ pc[t] = "gnc"
    /\ idx[t] >= dir_num
    /\ mutex_work' = mutex_work \ {t}
    /\ pc' = [pc EXCEPT ![t] = "waiting"]
    /\ UNCHANGED <<envVars, ctxVars, mutex_error, idx, cur, dir_path, sum, ent,
                   errno, retval, mainVars, histVars>>

\* pthread_cond_wait may return without a broadcast
SpuriousWakeup(t) ==
    /\ pc[t] = "waiting"
    /\ pc' = [pc EXCEPT ![t] = "woken"]
    /\ UNCHANGED <<envVars, ctxVars, lockVars, idx, cur, dir_path, sum, ent,
                   errno, retval, mainVars, histVars>>

\* are_threads_active returned false: unlock and return NULL
ReturnNull(t) ==
    /\ pc[t] = "ret_null"
    /\ mutex_work' = mutex_work \ {t}
    /\ pc' = [pc EXCEPT ![t] = "th_exit"]
    /\ UNCHANGED <<envVars, ctxVars, mutex_error, idx, cur, dir_path, sum, ent,
                   errno, retval, mainVars, histVars>>

(* --------------------------- traverse_directory ----------------------- *)
\* safe_opendir: pthread_mutex_lock(&mutex_error)
OpendirLock(t) ==
    /\ pc[t] = "so_lock"
    /\ mutex_error = {}
    /\ mutex_error' = {t}
    /\ pc' = [pc EXCEPT ![t] = "so_open"]
    /\ UNCHANGED <<envVars, ctxVars, mutex_work, idx, cur, dir_path, sum, ent,
                   errno, retval, mainVars, histVars>>

\* TRUE when opendir(dir_name) returns NULL
opendir_fails(dir_name, fails) == dir_name \in fails

\* mutant: a failed open ends the worker: thread_handler leaves its loop
Opendir_stops_worker(t) ==
    /\ pc[t] = "so_open"
    /\ mutex_error' = mutex_error \ {t}
    /\ sum' = [sum EXCEPT ![t] = 0]
    /\ IF opendir_fails(dir_path[t], openFail)
       THEN /\ errno' = [errno EXCEPT ![t] = 13]
            /\ err' = Append(err, dir_path[t])
            /\ sawFail' = sawFail \cup {t}
            /\ traversed' = traversed \cup {<<cur[t], unit[t]>>}
            /\ ent' = ent
            /\ pc' = [pc EXCEPT ![t] = "th_exit"]
       ELSE /\ ent' = [ent EXCEPT ![t] = 1]
            /\ pc' = [pc EXCEPT ![t] = "readdir"]
            /\ UNCHANGED <<errno, err, sawFail, traversed>>
    /\ UNCHANGED <<envVars, ctxVars, mutex_work, idx, cur, dir_path, retval,
                   mainVars, handed, unit>>

\* safe_opendir: opendir under the diagnostic lock, the message on failure,
\* the unlock; then traverse_directory's int sum = 0 and, on NULL,
\* free(dir_name) without update_total_sum
Opendir(t) ==
    /\ pc[t] = "so_open"
    /\ mutex_error' = mutex_error \ {t}
    /\ sum' = [sum EXCEPT ![t] = 0]
    /\ IF opendir_fails(dir_path[t], openFail)
       THEN /\ errno' = [errno EXCEPT ![t] = 13]
            /\ err' = Append(err, dir_path[t])
            /\ sawFail' = sawFail \cup {t}
            /\ traversed' = traversed \cup {<<cur[t], unit[t]>>}
            /\ ent' = ent
            /\ pc' = [pc EXCEPT ![t] = "dec_lock"]
       ELSE /\ ent' = [ent EXCEPT ![t] = 1]
            /\ pc' = [pc EXCEPT ![t] = "readdir"]
            /\ UNCHANGED <<errno, err, sawFail, traversed>>
    /\ UNCHANGED <<envVars, ctxVars, mutex_work, idx, cur, dir_path, retval,
                   mainVars, handed, unit>>

\* mutant: a directory is enqueued on the first coordinator's queue
process_directory_entry_first_root(cos, c, full_path) ==
    IF is_dictionary(LstatMode(full_path))
    THEN [cos EXCEPT ![1].dir_queue = queue_enqueue(@, full_path)]
    ELSE cos

\* process_directory_entry(full_path, &sum, coordinator): the coordinator
\* array after the entry: a directory is enqueued on coordinator c's queue
process_directory_entry(cos, c, full_path) ==
    IF is_dictionary(LstatMode(full_path))
    THEN [cos EXCEPT ![c + 1].dir_queue = queue_enqueue(@, full_path)]
    ELSE cos

\* mutant: the st_blocks of a directory entry are left out
entry_blocks_files_only(full_path, lg) ==
    IF is_dictionary(LstatMode(full_path)) THEN 0
    ELSE LstatBlocks(full_path, lg)

\* the st_blocks process_directory_entry adds for an entry: those of every
\* entry, a directory's included
entry_blocks(full_path, lg) == LstatBlocks(full_path, lg)

\* *sum += file_info.st_blocks
add_blocks(s, blocks) == ToInt(s + blocks)

\* one iteration of the readdir loop of process_directory_entries: skip "."
\* and "..", else create_full_path and process_directory_entry, whose
\* safe_lstat takes the fatal path when lstat fails
ReadEntry(t) ==
    /\ pc[t] = "readdir"
    /\ ent[t] <= Len(DirStream(dir_path[t]))
    /\ LET d_name == DirStream(dir_path[t])[ent[t]]
           full_path == create_full_path(dir_path[t], d_name)
       IN IF is_dot_or_dot_dot(d_name)
          THEN /\ ent' = [ent EXCEPT ![t] = @ + 1]
               /\ UNCHANGED <<coordinator, sum, pc, err>>
          ELSE IF lstat_fails(full_path, missing)
          THEN /\ pc' = [pc EXCEPT ![t] = "fatal"]
               /\ err' = Append(err, LstatMessage)
               /\ UNCHANGED <<coordinator, sum, ent>>
          ELSE /\ coordinator' =
                     process_directory_entry(coordinator, cur[t], full_path)
               /\ sum' = [sum EXCEPT ![t] =
                             add_blocks(@, entry_blocks(full_path, large))]
               /\ ent' = [ent EXCEPT ![t] = @ + 1]
               /\ pc' = pc
               /\ err' = err
    /\ UNCHANGED <<envVars, dir_num, size, alloc, lockVars, idx, cur,
                   dir_path, errno, retval, mainVars, handed, traversed,
                   sawFail, unit>>

\* mutant: traverse_directory returns without update_total_sum
UpdateTotal_skipped(t) ==
    /\ pc[t] = "readdir"
    /\ ent[t] > Len(DirStream(dir_path[t]))
    /\ pc' = [pc EXCEPT ![t] = "dec_lock"]
    /\ UNCHANGED <<envVars, ctxVars, lockVars, idx, cur, dir_path, sum, ent,
                   errno, retval, mainVars, histVars>>

\* readdir returned NULL: update_total_sum(sum, coordinator), closedir,
\* free(dir_name)
UpdateTotal(t) ==
    /\ pc[t] = "readdir"
    /\ ent[t] > Len(DirStream(dir_path[t]))
    /\ coordinator' = [coordinator EXCEPT ![cur[t] + 1] =
                          update_total_sum(sum[t], @)]
    /\ traversed' = traversed \cup {<<cur[t], unit[t]>>}
    /\ pc' = [pc EXCEPT ![t] = "dec_lock"]
    /\ UNCHANGED <<envVars, dir_num, size, alloc, lockVars, idx, cur, dir_path,
                   sum, ent, errno, retval, mainVars, err, handed, sawFail,
                   unit>>

(* ------------------------------ thread_handler ------------------------ *)
\* mutant: thread_handler goes on to the decrement without the lock
DecLock_skipped(t) ==
    /\ pc[t] = "dec_lock"
    /\ pc' = [pc EXCEPT ![t] = "dec"]
    /\ UNCHANGED <<envVars, ctxVars, lockVars, idx, cur, dir_path, sum, ent,
                   errno, retval, mainVars, histVars>>

\* pthread_mutex_lock(&mutex_work) after traverse_directory
DecLock(t) ==
    /\ pc[t] = "dec_lock"
    /\ mutex_work = {}
    /\ mutex_work' = {t}
    /\ pc' = [pc EXCEPT ![t] = "dec"]
    /\ UNCHANGED <<envVars, ctxVars, mutex_error, idx, cur, dir_path, sum, ent,
                   errno, retval, mainVars, histVars>>

\* mutant: the broadcast wakes nobody
broadcast_lost(pcs) == pcs

\* pthread_cond_broadcast: every thread blocked in pthread_cond_wait wakes
broadcast(pcs) == [u \in Threads |-> IF pcs[u] = "waiting" THEN "woken"
                                     ELSE pcs[u]]

\* decrement_counter, pthread_cond_broadcast, pthread_mutex_unlock
Decrement(t) ==
    /\ pc[t] = "dec"
    /\ coordinator' = [coordinator EXCEPT ![cur[t] + 1].active_threads =
                          decrement_counter(@)]
    /\ pc' = broadcast([pc EXCEPT ![t] = "gcw_lock"])
    /\ mutex_work' = mutex_work \ {t}
    /\ unit' = [unit EXCEPT ![t] = 0]
    /\ UNCHANGED <<envVars, dir_num, size, alloc, mutex_error, idx, cur,
                   dir_path, sum, ent, errno, retval, mainVars, err, handed,
                   traversed, sawFail>>

\* the exit status thread_handler stores after its loop
status_of(e) == IF e # 0 THEN 1 ELSE 0

\* the end of thread_handler: *exit_status from errno.  A spawned thread
\* ends; main stores the value in its exit_status and turns to the joins
ThreadExit(t) ==
    /\ pc[t] = "th_exit"
    /\ retval' = [retval EXCEPT ![t] = status_of(errno[t])]
    /\ IF t = 0
       THEN /\ exit_status' = retval'[0]
            /\ mi' = 0
            /\ pc' = [pc EXCEPT ![0] = "join"]
       ELSE /\ pc' = [pc EXCEPT ![t] = "done"]
            /\ UNCHANGED <<exit_status, mi>>
    /\ UNCHANGED <<envVars, ctxVars, lockVars, idx, cur, dir_path, sum, ent,
                   errno, pdir, out, exitcode, destroyed, histVars>>

Worker(t) ==
    \/ LockWork(t)
    \/ AreThreadsActive(t)
    \/ GetNonEmpty(t)
    \/ Dequeue(t)
    \/ Increment(t)
    \/ CondWait(t)
    \/ SpuriousWakeup(t)
    \/ ReturnNull(t)
    \/ OpendirLock(t)
    \/ Opendir(t)
    \/ ReadEntry(t)
    \/ UpdateTotal(t)
    \/ DecLock(t)
    \/ Decrement(t)
    \/ ThreadExit(t)

(* --------------------------------- main ------------------------------- *)
\* one iteration of collect_thread_exit_statuses: pthread_join blocks until
\* the thread has ended
Join ==
    /\ pc[0] = "join"
    /\ mi < thread_num
    /\ pc[mi + 1] = "done"
    /\ exit_status' = IF retval[mi + 1] = EXIT_FAILURE THEN EXIT_FAILURE
                      ELSE exit_status
    /\ mi' = mi + 1
    /\ UNCHANGED <<envVars, ctxVars, lockVars, thrVars, pdir, out, exitcode,
                   destroyed, histVars>>

JoinDone ==
    /\ pc[0] = "join"
    /\ mi >= thread_num
    /\ pc' = [pc EXCEPT ![0] = "print"]
    /\ mi' = 1
    /\ pdir' = 0
    /\ UNCHANGED <<envVars, ctxVars, lockVars, idx, cur, dir_path, sum, ent,
                   errno, retval, exit_status, out, exitcode, destroyed,
                   histVars>>

\* int file_size of one iteration of print_results, i not a flag argument
file_size(i) ==
    IF is_dictionary(LstatMode(argv[i].s))
    THEN Co(pdir).tot_sum
    ELSE ToInt(LstatBlocks(argv[i].s, large))

\* one iteration of the loop of print_results: safe_lstat of the argument
\* (fatal when it fails), then the printf of its line
PrintResult ==
    /\ pc[0] = "print"
    /\ mi < argc
    /\ IF ~is_flag_arg(mi, optind) /\ lstat_fails(argv[mi].s, missing)
       THEN /\ pc' = [pc EXCEPT ![0] = "fatal"]
            /\ err' = Append(err, LstatMessage)
            /\ UNCHANGED <<out, pdir, mi>>
       ELSE /\ IF ~is_flag_arg(mi, optind)
               THEN /\ out' = Append(out, <<file_size(mi), argv[mi].s>>)
                    /\ pdir' = IF is_dictionary(LstatMode(argv[mi].s))
                               THEN pdir + 1 ELSE pdir
               ELSE UNCHANGED <<out, pdir>>
            /\ mi' = mi + 1
            /\ pc' = pc
            /\ err' = err
    /\ UNCHANGED <<envVars, ctxVars, lockVars, idx, cur, dir_path, sum, ent,
                   errno, retval, exit_status, exitcode, destroyed, handed,
                   traversed, sawFail, unit>>

\* thread_context_destroy after print_results
Destroy ==
    /\ pc[0] = "print"
    /\ mi >= argc
    /\ destroyed' = TRUE
    /\ pc' = [pc EXCEPT ![0] = "exit"]
    /\ UNCHANGED <<envVars, ctxVars, lockVars, idx, cur, dir_path, sum, ent,
                   errno, retval, mi, exit_status, pdir, out, exitcode,
                   histVars>>

\* exit(EXIT_FAILURE) or exit(EXIT_SUCCESS)
Exit ==
    /\ pc[0] = "exit"
    /\ exitcode' = IF exit_status # EXIT_SUCCESS THEN EXIT_FAILURE
                   ELSE EXIT_SUCCESS
    /\ pc' = [pc EXCEPT ![0] = "exited"]
    /\ UNCHANGED <<envVars, ctxVars, lockVars, idx, cur, dir_path, sum, ent,
                   errno, retval, mi, exit_status, pdir, out, destroyed,
                   histVars>>

Main == ProcessArgument \/ SeedDone \/ CreateThread \/ Join \/ JoinDone
        \/ PrintResult \/ Destroy \/ Exit

Next == Main \/ \E t \in Threads : Worker(t)

Spec == Init /\ [][Next]_vars

(* ---------------------------- fatal errors ---------------------------- *)
\* another process unlinks a path: from now on lstat fails on it
Unlink ==
    /\ pc[0] \notin {"exited", "aborted", "segv"}
    /\ \E p \in vanish \ missing : missing' = missing \cup {p}
    /\ UNCHANGED <<argv, openFail, large, vanish, oom, optind, thread_num,
                   ctxVars, lockVars, thrVars, mainVars, histVars>>

\* main's next step seeds a directory argument: process_argument calls
\* expand_and_create_coordinator and queue_enqueue
SeedsDirectory ==
    /\ pc[0] = "seed"
    /\ mi < argc
    /\ ~is_flag_arg(mi, optind)
    /\ ~lstat_fails(argv[mi].s, missing)
    /\ is_dictionary(LstatMode(argv[mi].s))

\* the thread's next step calls safe_malloc or safe_calloc with the thread
\* context as in_use_data, outside the seeding of an argument:
\* create_full_path for an entry; the exit_status of thread_handler
AllocSiteCtx(t) ==
    \/ /\ pc[t] = "readdir"
       /\ ent[t] <= Len(DirStream(dir_path[t]))
       /\ ~is_dot_or_dot_dot(DirStream(dir_path[t])[ent[t]])
    \/ pc[t] = "th_exit"

\* the thread's next step calls safe_malloc or safe_calloc with NULL as
\* in_use_data: create_counter and clone_string while seeding a directory,
\* clone_string in queue_dequeue (that of thread_context_destroy included),
\* clone_string for a directory entry
AllocSiteNull(t) ==
    \/ (t = 0 /\ SeedsDirectory)
    \/ /\ pc[t] \in {"deq", "tcd_deq", "tcd_deq_q"}
       /\ idx[t] < Len(coordinator)
       /\ ~queue_is_empty(Co(idx[t]).dir_queue)
    \/ /\ pc[t] = "readdir"
       /\ ent[t] <= Len(DirStream(dir_path[t]))
       /\ LET d_name == DirStream(dir_path[t])[ent[t]]
              full_path == create_full_path(dir_path[t], d_name)
          IN /\ ~is_dot_or_dot_dot(d_name)
             /\ ~lstat_fails(full_path, missing)
             /\ is_dictionary(LstatMode(full_path))

\* an allocation with the context as in_use_data returns NULL: the message,
\* then thread_context_destroy(thread_context) and exit
AllocFailCtx(t) ==
    /\ oom
    /\ AllocSiteCtx(t)
    /\ pc' = [pc EXCEPT ![t] = "fatal"]
    /\ err' = Append(err, AllocMessage)
    /\ UNCHANGED <<envVars, ctxVars, lockVars, idx, cur, dir_path, sum, ent,
                   errno, retval, mainVars, handed, traversed, sawFail, unit>>

\* an allocation with NULL as in_use_data returns NULL: the message, then
\* thread_context_destroy(NULL) reads NULL->dir_num and the process ends
\* with SIGSEGV
AllocFailNull(t) ==
    /\ oom
    /\ AllocSiteNull(t)
    /\ pc' = [u \in Threads |-> "segv"]
    /\ err' = Append(err, AllocMessage)
    /\ UNCHANGED <<envVars, ctxVars, lockVars, idx, cur, dir_path, sum, ent,
                   errno, retval, mainVars, handed, traversed, sawFail, unit>>

\* while a directory argument is seeded, an allocation made before its
\* coordinator is stored in the array returns NULL: the realloc of the
\* array, the Coordinator of create_coordinator or the Queue of
\* queue_create.  dir_num is already incremented and slot dir_num - 1 has
\* never been assigned; size is doubled when the realloc had succeeded
AllocFailSlot ==
    /\ oom
    /\ SeedsDirectory
    /\ dir_num' = dir_num + 1
    /\ \E e \in {<<size, alloc>>, expand(size, alloc, dir_num')} :
          size' = e[1] /\ alloc' = e[2]
    /\ pc' = [pc EXCEPT ![0] = "fatal"]
    /\ err' = Append(err, AllocMessage)
    /\ UNCHANGED <<envVars, coordinator, lockVars, idx, cur, dir_path, sum,
                   ent, errno, retval, mainVars, handed, traversed, sawFail,
                   unit>>

\* while a directory argument is seeded, make_node's safe_malloc returns
\* NULL inside queue_enqueue: the coordinator is stored, its queue has no
\* node, and the mutex the fatal path holds is that of this queue, which
\* queue_destroy does not lock since the queue is empty
AllocFailSeedNode ==
    /\ oom
    /\ SeedsDirectory
    /\ dir_num' = dir_num + 1
    /\ size' = expand(size, alloc, dir_num')[1]
    /\ alloc' = expand(size, alloc, dir_num')[2]
    /\ coordinator' = Append(coordinator, create_coordinator)
    /\ pc' = [pc EXCEPT ![0] = "fatal"]
    /\ err' = Append(err, AllocMessage)
    /\ UNCHANGED <<envVars, lockVars, idx, cur, dir_path, sum, ent, errno,
                   retval, mainVars, handed, traversed, sawFail, unit>>

\* make_node's safe_malloc returns NULL inside queue_enqueue of a directory
\* entry: the fatal path is entered with the mutex of that queue locked
AllocFailNode(t) ==
    /\ oom
    /\ pc[t] = "readdir"
    /\ ent[t] <= Len(DirStream(dir_path[t]))
    /\ LET d_name == DirStream(dir_path[t])[ent[t]]
           full_path == create_full_path(dir_path[t], d_name)
       IN /\ ~is_dot_or_dot_dot(d_name)
          /\ ~lstat_fails(full_path, missing)
          /\ is_dictionary(LstatMode(full_path))
    /\ pc' = [pc EXCEPT ![t] = "fatal_q"]
    /\ err' = Append(err, AllocMessage)
    /\ UNCHANGED <<envVars, ctxVars, lockVars, idx, cur, dir_path, sum, ent,
                   errno, retval, mainVars, handed, traversed, sawFail, unit>>

\* the thread is inside thread_context_destroy, called from queue_enqueue
\* with the mutex of its coordinator's queue locked
InEnqueue(t) == pc[t] \in {"fatal_q", "tcd_q", "tcd_deq_q"}

\* the start of thread_context_destroy on the fatal path of safe_lstat or
\* of an allocation, in the thread that saw the failure: dir_num is read,
\* mutex_error, mutex_work and cond_work are destroyed, i = 0
FatalDestroy(t) ==
    /\ pc[t] \in {"fatal", "fatal_q"}
    /\ destroyed' = TRUE
    /\ idx' = [idx EXCEPT ![t] = 0]
    /\ pc' = [pc EXCEPT ![t] = IF InEnqueue(t) THEN "tcd_q" ELSE "tcd"]
    /\ UNCHANGED <<envVars, ctxVars, lockVars, cur, dir_path, sum, ent,
                   errno, retval, mi, exit_status, pdir, out, exitcode,
                   histVars>>

\* one iteration of the loop of thread_context_destroy up to the test of
\* queue_destroy's while, or the end of the loop.  A slot that was never
\* assigned holds NULL (calloc) or what realloc left there:
\* destroy_coordinator dereferences it and the process ends with a signal.
\* An empty queue is freed, then the coordinator, and the loop goes on.
DestroyCoordinator(t) ==
    /\ pc[t] \in {"tcd", "tcd_q"}
    /\ IF idx[t] >= dir_num
       THEN /\ pc' = [pc EXCEPT ![t] = "fatal_exit"]
            /\ idx' = idx
       ELSE IF idx[t] >= Len(coordinator)
       THEN /\ pc' = [u \in Threads |-> "segv"]
            /\ idx' = idx
       ELSE IF queue_is_empty(Co(idx[t]).dir_queue)
       THEN /\ pc' = pc
            /\ idx' = [idx EXCEPT ![t] = @ + 1]
       ELSE /\ pc' = [pc EXCEPT ![t] = IF InEnqueue(t) THEN "tcd_deq_q"
                                       ELSE "tcd_deq"]
            /\ idx' = idx
    /\ UNCHANGED <<envVars, ctxVars, lockVars, cur, dir_path, sum, ent,
                   errno, retval, mainVars, histVars>>

\* value = queue_dequeue(q), free(value) in queue_destroy.  A thread that
\* entered the fatal path inside queue_enqueue locks, for its own queue,
\* the mutex it already holds, and blocks for ever; a queue that a worker
\* has emptied since the test of the while makes queue_dequeue dereference
\* NULL
DestroyDequeue(t) ==
    /\ pc[t] \in {"tcd_deq", "tcd_deq_q"}
    /\ LET q == Co(idx[t]).dir_queue IN
       IF InEnqueue(t) /\ idx[t] = cur[t]
       THEN /\ pc' = [pc EXCEPT ![t] = "stuck"]
            /\ UNCHANGED coordinator
       ELSE IF queue_is_empty(q)
       THEN /\ pc' = [u \in Threads |-> "segv"]
            /\ UNCHANGED coordinator
       ELSE /\ coordinator' =
                  [coordinator EXCEPT ![idx[t] + 1].dir_queue = queue_dequeue(q)]
            /\ pc' = [pc EXCEPT ![t] = IF InEnqueue(t) THEN "tcd_q"
                                       ELSE "tcd"]
    /\ UNCHANGED <<envVars, dir_num, size, alloc, lockVars, idx, cur,
                   dir_path, sum, ent, errno, retval, mainVars, histVars>>

\* exit(EXIT_FAILURE) on the fatal path: the process and all its threads end
FatalExit(t) ==
    /\ pc[t] = "fatal_exit"
    /\ exitcode' = EXIT_FAILURE
    /\ pc' = [u \in Threads |-> "aborted"]
    /\ UNCHANGED <<envVars, ctxVars, lockVars, idx, cur, dir_path, sum, ent,
                   errno, retval, mi, exit_status, pdir, out, destroyed,
                   histVars>>

\* the thread's next step reads or writes the thread context
TouchesContext(t) ==
    pc[t] \in {"gcw_lock", "woken", "ata", "gnc", "deq", "inc", "so_lock",
               "so_open", "readdir", "dec_lock", "dec", "ret_null"}

\* a thread that runs on after another thread has freed the context uses
\* freed memory: besides going on as if nothing had happened, the process
\* may end with SIGSEGV
UseAfterDestroy(t) ==
    /\ destroyed
    /\ TouchesContext(t)
    /\ pc' = [u \in Threads |-> "segv"]
    /\ UNCHANGED <<envVars, ctxVars, lockVars, idx, cur, dir_path, sum, ent,
                   errno, retval, mainVars, histVars>>

Fatal(t) ==
    \/ AllocFailCtx(t)
    \/ AllocFailNull(t)
    \/ AllocFailNode(t)
    \/ FatalDestroy(t)
    \/ DestroyCoordinator(t)
    \/ DestroyDequeue(t)
    \/ FatalExit(t)
    \/ UseAfterDestroy(t)

\* the command lines of the runs in which lstat or an allocation may fail
FatalConfigs ==
    {FatalConfig(NoFlag(<<R>>), {}, {}, FALSE),
     FatalConfig(NoFlag(<<R, F>>), {}, {"F"}, FALSE),
     FatalConfig(SepFront(2, <<R>>), {}, {"R/S/s1"}, FALSE),
     FatalConfig(SepFront(2, <<A>>), {"A/C"}, {"A/B/b1"}, FALSE),
     FatalConfig(SepFront(2, <<R>>), {"R/S"}, {}, TRUE),
     FatalConfig(NoFlag(<<R, A>>), {"A/B", "A/C"}, {}, TRUE)}

InitFatal == InitFrom(FatalConfigs)

NextFatal ==
    \/ Next
    \/ Unlink
    \/ AllocFailSlot
    \/ AllocFailSeedNode
    \/ \E t \in Threads : Fatal(t)

\* the program with an environment in which lstat and allocations may fail
FatalSpec == InitFatal /\ [][NextFatal]_vars

(* -------------------------- the seeding alone -------------------------- *)
\* traverse_input_arguments on command lines of up to MaxArgs path
\* arguments, each the directory A or the file F, up to the first
\* pthread_create.
SeedConfigs ==
    {Config(av, {}, FALSE) :
        av \in UNION {[1 .. n -> {A, F}] : n \in 1 .. MaxArgs}}

InitSeed == InitFrom(SeedConfigs)

\* coordinator[dir_num - 1] was written outside the slots the array has:
\* the heap is damaged, and besides going on the process may be ended by
\* a signal
HeapOverflow ==
    /\ pc[0] = "seed"
    /\ dir_num > alloc
    /\ pc' = [u \in Threads |-> "segv"]
    /\ UNCHANGED <<envVars, ctxVars, lockVars, idx, cur, dir_path, sum, ent,
                   errno, retval, mainVars, histVars>>

SeedNext == ProcessArgument \/ SeedDone \/ HeapOverflow

SeedSpec == InitSeed /\ [][SeedNext]_vars

(* --------------------------- the queue alone --------------------------- *)
\* One coordinator's dir_queue under every sequence of at most MaxQ
\* queue_enqueue calls and of queue_dequeue calls made, as its contract
\* asks, on a non-empty queue.  handed records the released nodes and
\* dir_path[0] holds the last value returned.
QueueValues == {"x", "y"}

QueueInit ==
    /\ argv = <<>>
    /\ openFail = {}
    /\ large = FALSE
    /\ vanish = {}
    /\ oom = FALSE
    /\ missing = {}
    /\ optind = 1
    /\ thread_num = 0
    /\ coordinator = <<create_coordinator>>
    /\ dir_num = 1
    /\ size = 2
    /\ alloc = 2
    /\ mutex_work = {}
    /\ mutex_error = {}
    /\ pc = [t \in Threads |-> "unborn"]
    /\ idx = [t \in Threads |-> 0]
    /\ cur = [t \in Threads |-> 0]
    /\ dir_path = [t \in Threads |-> ""]
    /\ sum = [t \in Threads |-> 0]
    /\ ent = [t \in Threads |-> 0]
    /\ errno = [t \in Threads |-> 0]
    /\ retval = [t \in Threads |-> 0]
    /\ mi = 1
    /\ exit_status = 0
    /\ pdir = 0
    /\ out = <<>>
    /\ err = <<>>
    /\ exitcode = 0
    /\ destroyed = FALSE
    /\ handed = <<>>
    /\ traversed = {}
    /\ sawFail = {}
    /\ unit = [t \in Threads |-> 0]

\* queue_enqueue(q, value, in_use_data)
QueueEnqueue ==
    /\ Len(Co(0).dir_queue.vals) < MaxQ
    /\ \E value \in QueueValues :
          coordinator' = [coordinator EXCEPT ![1].dir_queue =
                             queue_enqueue(@, value)]
    /\ UNCHANGED <<envVars, dir_num, size, alloc, lockVars, thrVars, mainVars,
                   histVars>>

\* value = queue_dequeue(q)
QueueDequeue ==
    /\ ~queue_is_empty(Co(0).dir_queue)
    /\ dir_path' = [dir_path EXCEPT ![0] = queue_front(Co(0).dir_queue)]
    /\ handed' = Append(handed, <<0, Co(0).dir_queue.first>>)
    /\ coordinator' = [coordinator EXCEPT ![1].dir_queue = queue_dequeue(@)]
    /\ UNCHANGED <<envVars, dir_num, size, alloc, lockVars, pc, idx, cur, sum,
                   ent, errno, retval, mainVars, err, traversed, sawFail, unit>>

QueueNext == QueueEnqueue \/ QueueDequeue

QueueSpec == QueueInit /\ [][QueueNext]_vars

(* ------------------------------ fairness ------------------------------ *)
\* the steps a thread takes when it is scheduled: all of its steps but the
\* spurious return of pthread_cond_wait, which nothing promises
Progress(t) ==
    \/ LockWork(t)
    \/ AreThreadsActive(t)
    \/ GetNonEmpty(t)
    \/ Dequeue(t)
    \/ Increment(t)
    \/ CondWait(t)
    \/ ReturnNull(t)
    \/ OpendirLock(t)
    \/ Opendir(t)
    \/ ReadEntry(t)
    \/ UpdateTotal(t)
    \/ DecLock(t)
    \/ Decrement(t)
    \/ ThreadExit(t)

\* the command lines of the fair specification
LiveConfigs ==
    {Config(NoFlag(<<F>>), {}, FALSE),
     Config(NoFlag(<<R, F, A>>), {"A/B"}, FALSE),
     Config(SepFront(2, <<A>>), {}, TRUE),
     Config(AttFront(2, <<R, F, R>>), {"R/S"}, FALSE),
     Config(SepFront(3, <<R>>), {}, FALSE)}
    \cup {Config(SepFront(j, <<R>>), {"R/S"}, FALSE) : j \in 0 .. MaxJ}

InitLive == InitFrom(LiveConfigs)

\* Every thread is scheduled again and again, and a thread that asks for a
\* mutex that is free again and again gets it.
FairSpec ==
    /\ InitLive
    /\ [][Next]_vars
    /\ WF_vars(Main)
    /\ \A t \in Threads : SF_vars(Progress(t))

(* ------------------------ reference definitions ---------------------- *)
Roots == 0 .. (dir_num - 1)

\* the argument a coordinator was seeded with: the first path of its queue
RootPath(r) == Co(r).dir_queue.vals[1]

\* every path ever enqueued on root r's queue
Enqueued(r) == {Co(r).dir_queue.vals[n] : n \in 1 .. Len(Co(r).dir_queue.vals)}

\* a thread between its dequeue of a path and its decrement of the counter
InFlight(t) ==
    pc[t] \in {"inc", "so_lock", "so_open", "readdir", "dec_lock", "dec"}
    \/ (pc[t] \in {"fatal", "fatal_q", "tcd", "tcd_q", "tcd_deq", "tcd_deq_q",
                  "fatal_exit", "stuck"} /\ unit[t] # 0)

\* every worker has left its loop and every spawned thread has ended
AllWorkersExited ==
    /\ pc[0] \in {"join", "print", "exit", "exited"}
    /\ \A t \in Threads : t # 0 => pc[t] \in {"unborn", "done"}

\* print_results has returned
Printed == pc[0] \in {"exit", "exited"}

\* the paths of the tree under p that a traversal reaches: p itself and,
\* when p is a directory that can be opened, what its entries reach
RECURSIVE ReachAll(_)
ReachAll(p) ==
    {p} \cup
    IF p \in DirPaths /\ p \notin openFail
    THEN UNION {ReachAll(create_full_path(p, Children(p)[k])) :
                   k \in 1 .. Len(Children(p))}
    ELSE {}

\* the discovered subdirectories under p whose open fails
Unreadable(p) == {d \in ReachAll(p) \cap DirPaths : d # p /\ d \in openFail}

RECURSIVE SumBlocks(_)
SumBlocks(S) ==
    IF S = {} THEN 0
    ELSE LET x == CHOOSE y \in S : TRUE
         IN LstatBlocks(x, large) + SumBlocks(S \ {x})

\* the path arguments of the command line, in order
PathArgs == SelectSeq(argv, LAMBDA a : a.k = "path")

\* the paths of the printed lines, in order
PrintedPaths == [i \in 1 .. Len(out) |-> out[i][2]]

(* -------------------------------- claims ------------------------------ *)

\* C1: get_coordinator_with_work returns NULL only in a state in which every
\* root's queue is empty and its active counter is 0, and no worker is
\* between having dequeued a path and having decremented the counter.
C1_NullOnlyWhenIdle ==
    \A t \in Threads :
        pc[t] = "ret_null" =>
            /\ \A r \in Roots : /\ Pending(Co(r).dir_queue) = <<>>
                                /\ Co(r).active_threads = 0
            /\ \A u \in Threads : ~InFlight(u)

\* a spawned worker is about to receive NULL after two paths were handed out
C1_Witness ==
    \E t \in Threads : t # 0 /\ pc[t] = "ret_null" /\ Len(handed) >= 2

\* C2: under fair scheduling every run ends: every worker receives NULL from
\* get_coordinator_with_work and leaves its loop, no thread stays blocked in
\* pthread_cond_wait or at a mutex, and main joins the threads and exits.
C2_EveryWorkerLeaves ==
    /\ <>(pc[0] = "exited" /\ \A t \in Threads : t # 0 => pc[t] \in {"unborn", "done"})
    /\ \A t \in Threads : (pc[t] = "waiting") ~> (pc[t] = "th_exit")

\* a thread has been woken from pthread_cond_wait when no root is live
C2_Witness ==
    \E t \in Threads :
        /\ pc[t] = "woken"
        /\ \A r \in Roots : ~is_active(Co(r))
        /\ \A u \in Threads : ~InFlight(u)

\* C3: when all workers have exited, every path ever enqueued (each directory
\* argument and every subdirectory found in an opened directory) has been
\* dequeued and traversed, and every queue is empty.
C3_NoWorkMissed ==
    AllWorkersExited =>
        \A r \in Roots :
            /\ Pending(Co(r).dir_queue) = <<>>
            /\ Enqueued(r) = ReachAll(RootPath(r)) \cap DirPaths
            /\ \A n \in 1 .. Len(Co(r).dir_queue.vals) :
                  /\ n \in Co(r).dir_queue.freed
                  /\ <<r, n>> \in traversed
                  /\ \E k \in 1 .. Len(handed) : handed[k] = <<r, n>>

\* several workers have exited after a root with at least three directories
C3_Witness ==
    /\ AllWorkersExited
    /\ thread_num >= 1
    /\ \E r \in Roots : Len(Co(r).dir_queue.vals) >= 3

\* C5: no two calls of get_coordinator_with_work return the same queue entry,
\* and every entry returned is an entry that was enqueued.
C5_ExclusiveDequeue ==
    /\ \A i, j \in 1 .. Len(handed) : i # j => handed[i] # handed[j]
    /\ \A k \in 1 .. Len(handed) :
          /\ handed[k][1] \in Roots
          /\ handed[k][2] \in 1 .. Len(Co(handed[k][1]).dir_queue.vals)

\* two workers hold entries at the same time
C5_Witness ==
    \E t, u \in Threads : t # u /\ InFlight(t) /\ InFlight(u)

\* C6: a worker traversing a path of root r enqueues only onto r's queue and
\* adds only to r's total: every path on r's queue lies in r's tree, and r's
\* final total is what r's tree alone adds up to in the program's int.
C6_RootsIndependent ==
    /\ \A r \in Roots : Enqueued(r) \subseteq ReachAll(RootPath(r))
    /\ AllWorkersExited =>
          \A r \in Roots :
              Co(r).tot_sum = ToInt(SumBlocks(ReachAll(RootPath(r))))

\* two different roots were processed by a shared pool
C6_Witness ==
    /\ AllWorkersExited
    /\ thread_num >= 1
    /\ \E r, q \in Roots : RootPath(r) # RootPath(q)

\* C4: when no open fails, after all workers have exited each root's total
\* equals the st_blocks of the root plus those of every entry reachable
\* under it, each counted once, whatever the worker count and interleaving.
C4_TotalIsSumOfBlocks ==
    (AllWorkersExited /\ openFail = {}) =>
        \A r \in Roots : Co(r).tot_sum = SumBlocks(ReachAll(RootPath(r)))

\* C7 as claimed: a discovered subdirectory whose open fails adds nothing to
\* its root's total, none of its children are enqueued, and everything else
\* is counted: the total is the sum over what is reached, the unreadable
\* subdirectories left out.
C7_UnreadableAddsNothing ==
    AllWorkersExited =>
        \A r \in Roots :
            /\ Enqueued(r) = ReachAll(RootPath(r)) \cap DirPaths
            /\ Co(r).tot_sum =
                  ToInt(SumBlocks(ReachAll(RootPath(r))
                                  \ Unreadable(RootPath(r))))

\* C7 as amended: the failed traversal of a discovered subdirectory adds
\* nothing and enqueues none of its children, but the subdirectory's own
\* st_blocks, added when its parent was traversed, stay in the total: the
\* total is the sum over everything reached outside the unreadable
\* subdirectories plus the st_blocks of those subdirectories themselves.
C7_UnreadableAddsOnlyItself ==
    AllWorkersExited =>
        \A r \in Roots :
            /\ \A d \in Unreadable(RootPath(r)) :
                  /\ d \in Enqueued(r)
                  /\ \A k \in 1 .. Len(Children(d)) :
                        create_full_path(d, Children(d)[k]) \notin Enqueued(r)
            /\ Enqueued(r) = ReachAll(RootPath(r)) \cap DirPaths
            /\ Co(r).tot_sum =
                  ToInt(SumBlocks(ReachAll(RootPath(r))
                                  \ Unreadable(RootPath(r)))
                        + SumBlocks(Unreadable(RootPath(r))))

\* a pool has finished a root with an unreadable subdirectory that has
\* entries and a readable sibling
C7_Witness ==
    /\ AllWorkersExited
    /\ thread_num >= 1
    /\ \E r \in Roots : /\ "A/B" \in Unreadable(RootPath(r))
                        /\ "A/C" \in Enqueued(r)
                        /\ <<r, 1>> \in traversed

\* C8: in a run that has printed, the exit status is non-zero exactly when
\* some worker saw an opendir fail, and then every spawned thread has been
\* joined and there is one output line per path argument.
C8_ExitStatusIffOpenFailed ==
    pc[0] = "exited" =>
        /\ (exitcode # 0) <=> (sawFail # {})
        /\ sawFail # {} =>
              /\ \A t \in 1 .. thread_num : pc[t] = "done"
              /\ Len(out) = Len(PathArgs)

\* the directory arguments among the first i path arguments
DirArgsUpTo(i) ==
    Len(SelectSeq(SubSeq(PathArgs, 1, i),
                  LAMBDA a : is_dictionary(LstatMode(a.s))))

\* C9: print_results writes one line per path argument, in argument order,
\* and the k-th directory argument is printed with the total of the
\* coordinator that was seeded with it.
C9_OneLinePerPathArgument ==
    Printed =>
        /\ PrintedPaths = [i \in 1 .. Len(PathArgs) |-> PathArgs[i].s]
        /\ \A i \in 1 .. Len(PathArgs) :
              is_dictionary(LstatMode(PathArgs[i].s)) =>
                  /\ DirArgsUpTo(i) <= dir_num
                  /\ RootPath(DirArgsUpTo(i) - 1) = PathArgs[i].s
                  /\ out[i][1] = Co(DirArgsUpTo(i) - 1).tot_sum

\* C10: a non-directory argument gets no coordinator, is never enqueued or
\* handed to a worker, and is printed with exactly its own st_blocks.
C10_FileArgumentOutsidePool ==
    \A i \in 1 .. Len(PathArgs) :
        ~is_dictionary(LstatMode(PathArgs[i].s)) =>
            /\ \A r \in Roots : PathArgs[i].s \notin Enqueued(r)
            /\ \A t \in Threads : dir_path[t] # PathArgs[i].s
            /\ Printed =>
                  \E k \in 1 .. Len(out) :
                      out[k] = <<LstatBlocks(PathArgs[i].s, large),
                                 PathArgs[i].s>>

\* the option is absent, or its value is the string "0"
ZeroOrAbsent == FirstOpt(argv) = 0 \/ Optarg(argv) = Str(0)

\* C11: when the thread-count option has value 0 or is absent,
\* get_thread_amount returns 0, a non-negative count, and the invoking
\* thread is the only worker: no thread is ever spawned.
C11_ZeroOrAbsentSpawnsNone ==
    ZeroOrAbsent =>
        /\ thread_num = 0
        /\ thread_num >= 0
        /\ \A t \in Threads : t # 0 => pc[t] = "unborn"

\* the process has ended on a fatal error: exit(EXIT_FAILURE) after the
\* message of safe_lstat or of an allocation wrapper, or the SIGSEGV of an
\* allocation wrapper called without a context
EndedFatally == pc[0] \in {"aborted", "segv"}

\* C12: when a run ends in a fatal error (a failed lstat of an argument at
\* any point of the run, or a failed allocation), no result line has been
\* printed.
C12_NoLineBeforeFatalExit == EndedFatally => out = <<>>

(* -------------------------------- locks ------------------------------- *)
\* The mutexes by kind: mutex_work, mutex_error, a queue's mutex ("queue"),
\* a counter's mutex ("counter") and a coordinator's mutex_sum.  The last
\* three are locked and unlocked inside queue.c and thread_context.c, within
\* one step of the model; between steps a thread holds a queue's mutex
\* only on the fatal path entered inside queue_enqueue.
HeldBy(t) ==
    (IF t \in mutex_work THEN {"mutex_work"} ELSE {})
    \cup (IF t \in mutex_error THEN {"mutex_error"} ELSE {})
    \cup (IF pc[t] \in {"fatal_q", "tcd_q", "tcd_deq_q", "stuck"}
          THEN {"queue"} ELSE {})

\* queue_destroy locks the mutex of every queue that still has nodes
DestroyLocks ==
    IF \E r \in Roots : ~queue_is_empty(Co(r).dir_queue) THEN {"queue"}
    ELSE {}

\* the mutexes the thread's next step locks
Acquiring(t) ==
    CASE pc[t] \in {"gcw_lock", "woken", "dec_lock"} -> {"mutex_work"}
      [] pc[t] = "ata" ->
            IF idx[t] < dir_num
            THEN {"counter"} \cup (IF Co(idx[t]).active_threads > 0 THEN {}
                                   ELSE {"queue"})
            ELSE {}
      [] pc[t] = "gnc" -> IF idx[t] < dir_num THEN {"queue"} ELSE {}
      [] pc[t] = "deq" -> {"queue"}
      [] pc[t] \in {"inc", "dec"} -> {"counter"}
      [] pc[t] = "so_lock" -> {"mutex_error"}
      [] pc[t] = "readdir" ->
            IF ent[t] > Len(DirStream(dir_path[t])) THEN {"mutex_sum"}
            ELSE IF is_dictionary(LstatMode(create_full_path(
                        dir_path[t], DirStream(dir_path[t])[ent[t]])))
                 THEN {"queue"} ELSE {}
      [] pc[t] \in {"tcd_deq", "tcd_deq_q"} -> {"queue"}
      [] pc[t] = "print" -> IF mi >= argc THEN DestroyLocks ELSE {}
      [] OTHER -> {}

\* the pairs <<held, locked>> the thread's next step creates
NestedPairs(t) == HeldBy(t) \X Acquiring(t)

\* the thread's next step is a blocking filesystem call: opendir in
\* safe_opendir; readdir, lstat or closedir in traverse_directory; lstat of
\* an argument by main
FsCall(t) ==
    \/ pc[t] \in {"so_open", "readdir"}
    \/ (t = 0 /\ pc[0] = "seed" /\ mi < argc /\ ~is_flag_arg(mi, optind))
    \/ (t = 0 /\ pc[0] = "print" /\ mi < argc /\ ~is_flag_arg(mi, optind))

\* C13: no worker holds a mutex (dispatch, diagnostic, queue, counter or
\* total) while it executes a blocking filesystem call.
C13_NoLockAcrossFsCall == \A t \in Threads : FsCall(t) => HeldBy(t) = {}

\* C14: the only lock nesting is mutex_work, then a queue's mutex: no
\* thread holds any other pair of mutexes at the same time, so the order in
\* which the mutexes are taken has no cycle.
C14_OnlyDispatchThenQueue ==
    \A t \in Threads :
        /\ Cardinality(HeldBy(t)) <= 1
        /\ NestedPairs(t) \subseteq {<<"mutex_work", "queue">>}

(* ------------------------------ counters ------------------------------ *)
\* the root of the path a thread has dequeued: get_non_empty_coordinator's
\* coordinator until it has returned, thread_handler's afterwards
UnitRoot(t) == IF pc[t] = "inc" THEN idx[t] ELSE cur[t]

\* the workers that have dequeued a path of root r and have not yet ended
\* that unit with decrement_counter
Holding(r) == {t \in Threads : unit[t] # 0 /\ UnitRoot(t) = r}

\* the workers whose get_coordinator_with_work has returned a path of root
\* r and that have not yet ended that unit with decrement_counter
Dispatched(r) == {t \in Holding(r) : pc[t] # "inc"}

CounterChanged(r) ==
    /\ Len(coordinator') = Len(coordinator)
    /\ coordinator'[r].active_threads # coordinator[r].active_threads

\* this step is a step of thread t in which pthread_cond_broadcast wakes a
\* thread blocked in pthread_cond_wait
BroadcastBy(t) ==
    /\ pc[t] # "waiting"
    /\ pc'[t] # pc[t]
    /\ \E u \in Threads : u # t /\ pc[u] = "waiting" /\ pc'[u] = "woken"

\* C16: every change of an active counter, the increment of a dispatch and
\* the decrement of a completion, and every broadcast are made by a thread
\* that holds mutex_work; a completion decrements and broadcasts in one
\* critical section; so no thread blocks in pthread_cond_wait, or stays
\* blocked, after the completion that made every counter 0.
C16_CounterAndBroadcastUnderLock ==
    /\ [][/\ \A r \in 1 .. Len(coordinator) :
                CounterChanged(r) =>
                    \E t \in mutex_work :
                        pc[t] \in {"inc", "dec"} /\ pc'[t] # pc[t]
          /\ \A t \in Threads :
                BroadcastBy(t) =>
                    /\ t \in mutex_work
                    /\ pc[t] = "dec"
                    /\ Co(cur[t]).active_threads' =
                          Co(cur[t]).active_threads - 1]_vars
    /\ [](\A t \in Threads :
             pc[t] = "waiting" => \E r \in Roots : Co(r).active_threads > 0)

\* a thread is blocked in pthread_cond_wait while another one, holding
\* mutex_work, is about to make the last decrement and broadcast
C16_Witness ==
    \E t, u \in Threads :
        /\ pc[t] = "waiting"
        /\ pc[u] = "dec"
        /\ u \in mutex_work
        /\ \A r \in Roots : Co(r).active_threads = IF r = cur[u] THEN 1 ELSE 0

\* some root's queue holds a path
WorkExists == \E r \in Roots : ~queue_is_empty(Co(r).dir_queue)

\* C17: every enqueue onto a root's queue, like every decrement of a
\* counter, is followed by a broadcast, so that a waiter re-evaluates as
\* soon as new work exists: a thread blocked in pthread_cond_wait while a
\* queue holds a path is about to be woken, some thread being at its
\* pthread_cond_broadcast.
C17_EnqueueIsBroadcast ==
    \A t \in Threads :
        (pc[t] = "waiting" /\ WorkExists) => \E u \in Threads : pc[u] = "dec"

(* ------------------------- order within a unit ------------------------ *)
\* traverse_directory has returned for the thread's unit: the open failed,
\* or every entry was read, every directory among them is on the root's
\* queue and update_total_sum was called
UnitDone(t) ==
    /\ <<cur[t], unit[t]>> \in traversed
    /\ dir_path[t] \notin openFail =>
          /\ ent[t] > Len(DirStream(dir_path[t]))
          /\ \A k \in 1 .. Len(Children(dir_path[t])) :
                LET full_path ==
                        create_full_path(dir_path[t], Children(dir_path[t])[k])
                IN is_dictionary(LstatMode(full_path)) =>
                       full_path \in Enqueued(cur[t])

\* this step changes the total of coordinator[r]
TotalChanged(r) ==
    /\ Len(coordinator') = Len(coordinator)
    /\ coordinator'[r].tot_sum # coordinator[r].tot_sum

\* C18: for each unit the one update_total_sum of the directory's local sum
\* and all enqueues of its subdirectories are made before the worker
\* decrements the root's counter, the counter being still positive; so in
\* every state in which get_coordinator_with_work returns NULL every
\* root's total has its final value.
C18_TotalBeforeDecrement ==
    /\ [](\A t \in Threads : pc[t] \in {"dec_lock", "dec"} => UnitDone(t))
    /\ [][\A r \in 1 .. Len(coordinator) :
             TotalChanged(r) =>
                 \E t \in Threads :
                     /\ pc[t] = "readdir"
                     /\ pc'[t] = "dec_lock"
                     /\ cur[t] = r - 1
                     /\ <<cur[t], unit[t]>> \notin traversed
                     /\ coordinator'[r].tot_sum =
                           IntAdd(coordinator[r].tot_sum, sum[t])
                     /\ coordinator'[r].active_threads >= 1]_vars
    /\ [](\A t \in Threads :
             pc[t] = "ret_null" =>
                 \A r \in Roots :
                     Co(r).tot_sum = ToInt(SumBlocks(ReachAll(RootPath(r)))))

\* a worker of a pool receives NULL after a run over a root with at least
\* three directories, one of which could not be opened
C18_Witness ==
    \E t \in Threads :
        /\ pc[t] = "ret_null"
        /\ thread_num >= 1
        /\ sawFail # {}
        /\ \E r \in Roots : Len(Co(r).dir_queue.vals) >= 3

(* ------------------------------ dispatch ------------------------------- *)
\* the nodes of a queue that queue_dequeue has not released: the paths
\* enqueued and not yet dequeued, by order of enqueue
Unreleased(q) == {n \in 1 .. Len(q.vals) : n \notin q.freed}

\* C19: get_coordinator_with_work returns the front path of the queue of
\* the lowest-indexed root whose queue was non-empty in its scan: the scan
\* starts at root 0, passes a root only when it finds its queue empty, and
\* at the first non-empty queue dequeues the path that was enqueued first
\* among those still on it and returns it with that root.
C19_FirstNonEmptyRootFront ==
    [][\A t \in Threads :
          /\ (pc[t] = "ata" /\ pc'[t] = "gnc") => idx'[t] = 0
          /\ (pc[t] = "gnc" /\ pc'[t] = "gnc" /\ idx'[t] # idx[t]) =>
                /\ idx'[t] = idx[t] + 1
                /\ queue_is_empty(Co(idx[t]).dir_queue)
          /\ (pc[t] = "gnc" /\ pc'[t] = "deq") =>
                /\ idx'[t] = idx[t]
                /\ ~queue_is_empty(Co(idx[t]).dir_queue)
          /\ (pc[t] = "deq" /\ pc'[t] = "inc") =>
                LET q == Co(idx[t]).dir_queue IN
                /\ idx'[t] = idx[t]
                /\ unit'[t] \in Unreleased(q)
                /\ \A n \in Unreleased(q) : unit'[t] <= n
                /\ dir_path'[t] = q.vals[unit'[t]]
          /\ (pc[t] = "inc" /\ pc'[t] = "so_lock") =>
                cur'[t] = idx[t] /\ dir_path'[t] = dir_path[t]]_vars

\* a worker is about to dequeue from the second root, whose queue it found
\* non-empty after it had found the first root's queue empty, and the first
\* root's queue has been refilled since
C19_Witness ==
    \E t \in Threads :
        /\ pc[t] = "deq"
        /\ idx[t] = 1
        /\ ~queue_is_empty(Co(0).dir_queue)

(* -------------------------------- queue -------------------------------- *)
\* the nodes m, m + 1, ..., n in order
RECURSIVE Run(_, _)
Run(m, n) == IF m > n THEN <<>> ELSE <<m>> \o Run(m + 1, n)

\* C20: a queue is FIFO under every sequence of queue_enqueue and
\* queue_dequeue, across emptying and refilling: the k-th queue_dequeue
\* releases the k-th node enqueued and returns its path, the paths still
\* on the queue are the later ones in the order of their enqueue, and
\* queue_is_empty is true exactly when every path enqueued has been
\* dequeued.
C20_QueueIsFifo ==
    LET q == Co(0).dir_queue IN
    /\ \A k \in 1 .. Len(handed) : handed[k] = <<0, k>>
    /\ Len(handed) > 0 => dir_path[0] = q.vals[Len(handed)]
    /\ Len(handed) <= Len(q.vals)
    /\ Pending(q) = Run(Len(handed) + 1, Len(q.vals))
    /\ queue_is_empty(q) <=> Len(handed) = Len(q.vals)

\* the queue was emptied, refilled, has given out a refilled path and
\* holds two more
C20_Witness ==
    LET q == Co(0).dir_queue IN
    \E n \in 2 .. Len(q.vals) :
        /\ q.next[n - 1] = 0
        /\ n \in q.freed
        /\ Len(Pending(q)) >= 2

(* ------------------------- dequeue and its check ---------------------- *)
\* C21: queue_dequeue is never executed on an empty queue: between the
\* test that found a queue non-empty and the queue_dequeue that follows it
\* no other worker removes a path from that queue, so at every call of
\* queue_dequeue, that of get_non_empty_coordinator as that of
\* queue_destroy, the queue holds a path.
C21_DequeueOnNonEmpty ==
    \A t \in Threads :
        pc[t] \in {"deq", "tcd_deq", "tcd_deq_q"} =>
            ~queue_is_empty(Co(idx[t]).dir_queue)

(* ----------------------------- failed open ---------------------------- *)
\* this step is a step of thread t that leaves position p
Leaves(t, p) == pc[t] = p /\ pc'[t] # p

\* C22: a failed directory open does not stop the worker.  The worker whose
\* opendir fails goes on to lock mutex_work, without touching the total;
\* it then decrements the counter of that root by exactly one, broadcasts
\* and calls get_coordinator_with_work again; it leaves its loop only when
\* get_coordinator_with_work has returned NULL; and under fair scheduling
\* it does come, by these steps, to that NULL.
C22_FailedOpenKeepsWorker ==
    /\ [][\A t \in Threads :
             /\ (Leaves(t, "so_open") /\ opendir_fails(dir_path[t], openFail)) =>
                   /\ pc'[t] = "dec_lock"
                   /\ coordinator' = coordinator
             /\ Leaves(t, "dec_lock") => pc'[t] = "dec"
             /\ Leaves(t, "dec") =>
                   /\ pc'[t] = "gcw_lock"
                   /\ Co(cur[t]).active_threads' = Co(cur[t]).active_threads - 1
                   /\ \A r \in Roots :
                         r # cur[t] => Co(r)' = Co(r)
                   /\ \A u \in Threads : pc[u] = "waiting" => pc'[u] = "woken"
             /\ (pc'[t] = "th_exit" /\ pc[t] # "th_exit") =>
                   pc[t] = "ret_null"]_vars
    /\ \A t \in Threads :
          (pc[t] = "dec_lock" /\ dir_path[t] \in openFail)
              ~> (pc[t] = "th_exit")

\* a worker that saw an open fail is reading the entries of a directory it
\* was handed afterwards
C22_Witness ==
    \E t \in Threads :
        /\ t \in sawFail
        /\ pc[t] = "readdir"
        /\ dir_path[t] \notin openFail
        /\ ent[t] > 1

(* ------------------------------- totals ------------------------------- *)
\* C23: a root's total never decreases: every update_total_sum leaves
\* tot_sum greater than or equal to its previous value, whatever st_blocks
\* the filesystem reports.
C23_TotalNeverDecreases ==
    [][\A r \in 1 .. Len(coordinator) :
          TotalChanged(r) =>
              coordinator'[r].tot_sum >= coordinator[r].tot_sum]_vars

(* --------------------------- phases of main --------------------------- *)
\* the thread is in the loop of thread_handler: it has called
\* get_coordinator_with_work and has not yet been returned NULL
InLoop(t) ==
    pc[t] \in {"gcw_lock", "woken", "waiting", "ata", "gnc", "deq", "inc",
               "so_lock", "so_open", "readdir", "dec_lock", "dec", "ret_null"}

\* C24: all coordinators are created and seeded before any worker starts;
\* a total is read for printing, and the shared context is destroyed, only
\* when every worker, the invoking thread and the spawned threads, has
\* left its loop; and no coordinator is added while a worker runs.
C24_SeedRunPrintDestroy ==
    /\ []((\E t \in Threads : InLoop(t)) =>
             /\ pc[0] # "seed"
             /\ Len(coordinator) = dir_num)
    /\ [](pc[0] = "print" => \A t \in Threads : ~InLoop(t))
    /\ [](destroyed => \A t \in Threads : ~InLoop(t))
    /\ [][(\E t \in Threads : InLoop(t)) =>
             /\ Len(coordinator') = Len(coordinator)
             /\ dir_num' = dir_num]_vars

(* -------------------------- coordinator array -------------------------- *)
\* C25: while any number of directory arguments is seeded, every slot
\* written or later read, 0 .. dir_num - 1, lies inside the array as it is
\* allocated: size never exceeds the slots the array has, and neither does
\* dir_num.
C25_SlotsInsideArray ==
    /\ size <= alloc
    /\ dir_num <= alloc
    /\ \A i \in 0 .. (dir_num - 1) : i < alloc

(* ------------------------- destroying the context ---------------------- *)
\* the thread has called thread_context_destroy: on a fatal path, or main
\* after print_results
Destroyer(t) ==
    \/ pc[t] \in {"tcd", "tcd_q", "tcd_deq", "tcd_deq_q", "fatal_exit", "stuck"}
    \/ (t = 0 /\ pc[0] \in {"exit", "exited"})

\* C26: the shared context is destroyed only when no other worker is still
\* running or holds one of its locks: while a thread destroys it, or has
\* destroyed it, every other thread is outside its loop and holds neither
\* mutex_work nor mutex_error.
C26_DestroyOnlyWhenAlone ==
    \A t \in Threads :
        Destroyer(t) =>
            \A u \in Threads \ {t} :
                /\ ~InLoop(u)
                /\ u \notin mutex_work
                /\ u \notin mutex_error

(* ----------------------------- termination ---------------------------- *)
\* get_coordinator_with_work has decided on NULL for the thread, or has
\* returned it
AfterNull(t) ==
    \/ pc[t] \in {"ret_null", "th_exit", "done"}
    \/ (t = 0 /\ pc[0] \in {"join", "print", "exit", "exited"})

\* some worker has received NULL
Terminated == \E t \in Threads : AfterNull(t)

\* C27: termination is stable.  Once a worker has received NULL, every
\* queue is empty and every counter is 0 and they stay so: no step
\* enqueues, dequeues or adds to a total any more, and every other worker
\* has either not yet started its loop, or is at its own NULL, or is in a
\* call of get_coordinator_with_work at a position from which the scan of
\* are_threads_active can only end in NULL.
C27_TerminationIsStable ==
    /\ [](Terminated =>
             /\ \A r \in Roots : /\ queue_is_empty(Co(r).dir_queue)
                                 /\ Co(r).active_threads = 0
             /\ \A t \in Threads :
                   \/ AfterNull(t)
                   \/ pc[t] \in {"unborn", "create", "gcw_lock", "woken",
                                 "ata"})
    /\ [][Terminated =>
             /\ Terminated'
             /\ coordinator' = coordinator
             /\ handed' = handed
             /\ \A t \in Threads :
                   (pc[t] = "ata" /\ pc'[t] # "ata") => pc'[t] = "ret_null"]_vars

\* a worker has received NULL after a run over at least three directories
\* while another one, woken by the last broadcast, has yet to scan
C27_Witness ==
    /\ \E t \in Threads : AfterNull(t)
    /\ \E u \in Threads : pc[u] = "woken"
    /\ \E r \in Roots : Len(Co(r).dir_queue.vals) >= 3

(* -------------------------- allocation failure ------------------------- *)
\* an allocation wrapper has written its message: an allocation has failed
AllocFailed == \E k \in 1 .. Len(err) : err[k] = AllocMessage

\* C28: after a failed allocation, at whatever site, the process ends with
\* the message, the shared state released and exit(EXIT_FAILURE): it is
\* not ended by a signal for touching a context that does not exist, and
\* it does not block.
C28_AllocFailureExitsCleanly ==
    AllocFailed =>
        /\ \A t \in Threads : pc[t] \notin {"segv", "stuck"}
        /\ pc[0] = "aborted" => (destroyed /\ exitcode = EXIT_FAILURE)

====
